---------------------------- MODULE Spec2Model ----------------------------
(***************************************************************************)
(* The raster-stacking notebook _solved/14-combine-data.ipynb as a state   *)
(* machine.  One run executes the code cells top to bottom ("Run All"); a  *)
(* cell that raises stops the run.  The model covers the moisture-index    *)
(* pipeline: enumerate the *.tiff files, parse the date out of each file   *)
(* name, stack the rasters eagerly (xr.concat) and lazily                  *)
(* (xr.open_mfdataset with the add_date_dimension hook), write the stacks  *)
(* to NetCDF and Zarr, read them back and clean up.                        *)
(*                                                                         *)
(* Strings are sequences of one-character strings, so that splitting,      *)
(* parsing and lexicographic sorting are computed and not assumed.  A      *)
(* raster is one-dimensional: a set xs of pixel coordinates (its spatial   *)
(* extent) and a value per coordinate.  A date is a day number.            *)
(***************************************************************************)
EXTENDS Integers, Sequences, FiniteSets, TLC

\* Bounds of the model: files in the data directory, runs of the notebook.
MaxFiles == 3
MaxRuns == 2

\* The fill value xr.concat and CF decoding put where no pixel is (NaN).
NaN == -1

(***************************************************************************)
(* Characters, strings and paths                                           *)
(***************************************************************************)
\* Code points of the characters the file names are written in.
CharCode(c) ==
    CASE c = "," -> 44
      [] c = "." -> 46
      [] c = "1" -> 49
      [] c = "2" -> 50
      [] c = "X" -> 88
      [] c = "a" -> 97

Digits == {"1", "2"}

DigitValue(c) == CharCode(c) - 48

\* str.__lt__: lexicographic by code point, a proper prefix first.
RECURSIVE StrLess(_, _)
StrLess(a, b) ==
    IF a = <<>> THEN b # <<>>
    ELSE IF b = <<>> THEN FALSE
    ELSE IF CharCode(Head(a)) # CharCode(Head(b))
         THEN CharCode(Head(a)) < CharCode(Head(b))
         ELSE StrLess(Tail(a), Tail(b))

\* The parts of a path below the data directory.  Every enumerated file
\* matches "*.tiff"; the suffix is the same for all of them and only its
\* first character can decide a comparison.
Parts(p) ==
    IF p.dir = <<>> THEN << p.stem \o <<".">> >>
    ELSE << p.dir, p.stem \o <<".">> >>

\* PurePath.__lt__: the lists of parts compared lexicographically.
RECURSIVE PartsLess(_, _)
PartsLess(a, b) ==
    IF a = <<>> THEN b # <<>>
    ELSE IF b = <<>> THEN FALSE
    ELSE IF Head(a) # Head(b) THEN StrLess(Head(a), Head(b))
         ELSE PartsLess(Tail(a), Tail(b))

PathLess(p, q) == PartsLess(Parts(p), Parts(q))

\* list(sorted(paths)): ascending by PathLess.
RECURSIVE SortedPaths(_)
SortedPaths(S) ==
    IF S = {} THEN <<>>
    ELSE LET m == CHOOSE x \in S : \A y \in S \ {x} : PathLess(x, y)
         IN  <<m>> \o SortedPaths(S \ {m})

(***************************************************************************)
(* Metadata extractor: file_name.stem.split(",")[0], then pd.to_datetime   *)
(***************************************************************************)
MinOf(S) == CHOOSE x \in S : \A y \in S : x <= y

\* stem.split(",")[0]: the text before the first comma, all of it if none.
FirstSegment(stem) ==
    LET commas == {i \in 1..Len(stem) : stem[i] = ","}
    IN  IF commas = {} THEN stem ELSE SubSeq(stem, 1, MinOf(commas) - 1)

RECURSIVE DecimalValue(_)
DecimalValue(s) ==
    IF s = <<>> THEN 0
    ELSE 10 * DecimalValue(SubSeq(s, 1, Len(s) - 1)) + DigitValue(s[Len(s)])

Date(n) == [k |-> "date", v |-> n]
NaT == [k |-> "NaT", v |-> 0]
ParseError == [k |-> "ParseError", v |-> 0]

\* pd.to_datetime on a string: the empty string is a missing value and
\* gives NaT without raising; a string of digits is the date it spells;
\* anything else raises.
to_datetime(seg) ==
    IF seg = <<>> THEN NaT
    ELSE IF \A i \in 1..Len(seg) : seg[i] \in Digits
         THEN Date(DecimalValue(seg))
         ELSE ParseError

(***************************************************************************)
(* The data directory                                                      *)
(***************************************************************************)
Path(dir, stem) == [dir |-> dir, stem |-> stem]

P_2   == Path(<<>>, <<"2", ",", "X">>)          \* "2, X.tiff"
P_12  == Path(<<>>, <<"1", "2", ",", "X">>)     \* "12, X.tiff"
P_sub == Path(<<"a">>, <<"1", ",", "X">>)       \* "a/1, X.tiff"
P_bad == Path(<<>>, <<"X", ",", "X">>)          \* "X, X.tiff"
P_nat == Path(<<>>, <<",", "X">>)               \* ", X.tiff"

\* A number that tells the pixels of one file from those of another.
Tag(p) ==
    CASE p = P_2 -> 1 [] p = P_12 -> 2 [] p = P_sub -> 3
      [] p = P_bad -> 4 [] p = P_nat -> 5

\* The day a file was acquired on, for the files whose name starts with a
\* date (the naming convention "<date>, <sensor description>.tiff").
AcquiredOn(p) ==
    CASE p = P_2 -> 2 [] p = P_12 -> 12 [] p = P_sub -> 1

WellNamed == {P_2, P_12, P_sub}

\* A GeoTIFF: whether it decodes, its extent, its declared nodata value
\* (none or one) and its pixels.  The pixel at coordinate 2 is 0.
Raster(p, ok, xs, nodata) ==
    [ok |-> ok, xs |-> xs, nodata |-> nodata,
     pix |-> [x \in xs |-> IF x = 2 THEN 0 ELSE Tag(p)]]

Candidates ==
    { [path |-> P_2,   raster |-> Raster(P_2,   TRUE,  {1, 2}, {})],
      [path |-> P_2,   raster |-> Raster(P_2,   TRUE,  {1, 2}, {0})],
      [path |-> P_12,  raster |-> Raster(P_12,  TRUE,  {1, 2}, {})],
      [path |-> P_12,  raster |-> Raster(P_12,  TRUE,  {2, 3}, {})],
      [path |-> P_sub, raster |-> Raster(P_sub, TRUE,  {1, 2}, {})],
      [path |-> P_sub, raster |-> Raster(P_sub, FALSE, {1, 2}, {})],
      [path |-> P_bad, raster |-> Raster(P_bad, TRUE,  {1, 2}, {})],
      [path |-> P_nat, raster |-> Raster(P_nat, TRUE,  {1, 2}, {})] }

Directories ==
    { S \in SUBSET Candidates :
        /\ Cardinality(S) <= MaxFiles
        /\ \A c, d \in S : c.path = d.path => c = d }

DiskOf(S) ==
    [p \in {c.path : c \in S} |-> (CHOOSE c \in S : c.path = p).raster]


(***************************************************************************)
(* Labeled arrays                                                          *)
(***************************************************************************)
\* No array: the value of a notebook variable that has not been assigned.
NoArray == [date |-> <<>>, xs |-> {}, data |-> <<>>, nodata |-> {}, dims |-> <<>>]

\* The same for a lazy array, which holds the file behind each chunk (src)
\* in place of the pixels.
NoLazy == [date |-> <<>>, xs |-> {}, src |-> <<>>, nodata |-> {}, dims |-> <<>>]

NoPath == Path(<<>>, <<>>)

\* xr.open_dataarray(file_name, engine="rasterio", mask_and_scale=False):
\* the raw pixels, the nodata value kept as the _FillValue attribute.
open_dataarray(p, r) ==
    [source |-> p, xs |-> r.xs, pix |-> r.pix, nodata |-> r.nodata]

\* xr.Variable('date', values)
Variable(name, values) == [name |-> name, values |-> values]

\* xr.concat(arrays, dim=dimvar) with the defaults join="outer",
\* combine_attrs="override": the new axis first, labelled by dimvar in the
\* order of the arrays; the other coordinates are the union of the
\* arrays' coordinates, NaN where an array has no pixel; the attributes
\* are those of the first array.
concat(arrs, dimvar) ==
    LET xs == UNION {arrs[i].xs : i \in DOMAIN arrs}
    IN  [date  |-> dimvar.values,
         xs    |-> xs,
         data  |-> [i \in DOMAIN arrs |->
                      [x \in xs |-> IF x \in arrs[i].xs THEN arrs[i].pix[x] ELSE NaN]],
         nodata |-> arrs[1].nodata,
         dims  |-> <<dimvar.name, "band", "y", "x">>]

\* Chronological order of labels, NaT last.
DateLeq(d, e) == e = NaT \/ (d # NaT /\ d.v <= e.v)

\* The positions of a date axis in ascending order of their labels, equal
\* labels in their original order.
RECURSIVE SortOrder(_, _)
SortOrder(dates, I) ==
    IF I = {} THEN <<>>
    ELSE LET m == CHOOSE i \in I :
                    \A j \in I : /\ DateLeq(dates[i], dates[j])
                                 /\ (DateLeq(dates[j], dates[i]) => i <= j)
         IN  <<m>> \o SortOrder(dates, I \ {m})

\* line 209: moisture_index.sortby("date"), a new array with the slices
\* and their labels rearranged by ascending date.
sortby(arr) ==
    LET o == SortOrder(arr.date, DOMAIN arr.date)
    IN  [arr EXCEPT !.date = [k \in DOMAIN o |-> arr.date[o[k]]],
                    !.data = [k \in DOMAIN o |-> arr.data[o[k]]]]

(***************************************************************************)
(* State                                                                   *)
(***************************************************************************)
VARIABLES
    disk,                   \* the data directory: path -> raster
    run,                    \* number of the current run of the notebook
    pc,                     \* the cell (or step of a cell) to execute next
    err,                    \* the exception that stopped the run, or "none"
    moisture_index_files,   \* notebook variable (cell at line 132)
    moisture_index_dates,   \* notebook variable (line 150)
    date_var,               \* notebook variable (line 177)
    arrays,                 \* the list being built by the comprehension at line 197
    moisture_index,         \* notebook variable (line 196)
    parallel,               \* open_mfdataset's parallel argument
    datasets,               \* open_mfdataset's per-file datasets
    moisture_index_lazy,    \* notebook variable (line 255)
    handles,                \* open file handles: [path, owner]
    nc,                     \* the file moisture_index_stacked.nc
    zarr,                   \* the directory moisture_index_stacked.zarr
    read_nc,                \* the array read back at line 321
    read_zarr,              \* the array read back at line 349
    written,                \* the outputs this run has written to
    prev                    \* what the previous run ended with

vars == <<disk, run, pc, err, moisture_index_files, moisture_index_dates,
          date_var, arrays, moisture_index, parallel, datasets,
          moisture_index_lazy, handles, nc, zarr, read_nc, read_zarr,
          written, prev>>

kernel == <<moisture_index_files, moisture_index_dates, date_var, arrays,
            moisture_index, parallel, datasets, moisture_index_lazy,
            read_nc, read_zarr>>

NoEncoded == [units |-> 0, time |-> <<>>, xs |-> {}, data |-> <<>>,
              nodata |-> {}, dims |-> <<>>]
AbsentNc == [st |-> "absent", content |-> NoEncoded]
AbsentZarr == [st |-> "absent", meta |-> NoEncoded, src |-> <<>>,
               chunks |-> <<>>, consolidated |-> FALSE]
NoPrev == [complete |-> FALSE, eager |-> NoArray, lazy |-> NoLazy,
           read_nc |-> NoArray, read_zarr |-> NoArray]

\* A fresh kernel: no notebook variable is assigned, no handle is open.
FreshKernel ==
    /\ pc = "enumerate"
    /\ err = "none"
    /\ moisture_index_files = <<>>
    /\ moisture_index_dates = <<>>
    /\ date_var = Variable("date", <<>>)
    /\ arrays = <<>>
    /\ moisture_index = NoArray
    /\ parallel = FALSE
    /\ datasets = <<>>
    /\ moisture_index_lazy = NoLazy
    /\ handles = {}
    /\ read_nc = NoArray
    /\ read_zarr = NoArray
    /\ written = {}

Init ==
    /\ \E S \in Directories : disk = DiskOf(S)
    /\ run = 1
    /\ FreshKernel
    /\ nc = AbsentNc
    /\ zarr = AbsentZarr
    /\ prev = NoPrev

\* The next state has a fresh kernel.
Restart ==
    /\ pc' = "enumerate"
    /\ err' = "none"
    /\ moisture_index_files' = <<>>
    /\ moisture_index_dates' = <<>>
    /\ date_var' = Variable("date", <<>>)
    /\ arrays' = <<>>
    /\ moisture_index' = NoArray
    /\ parallel' = FALSE
    /\ datasets' = <<>>
    /\ moisture_index_lazy' = NoLazy
    /\ handles' = {}
    /\ read_nc' = NoArray
    /\ read_zarr' = NoArray
    /\ written' = {}

\* An uncaught exception stops the run.
Abort(e) == pc' = "aborted" /\ err' = e

(***************************************************************************)
(* Eager path                                                              *)
(***************************************************************************)
\* Path(...).rglob("*.tiff"): every file below the data directory (none if
\* the directory is missing).
rglob == DOMAIN disk

\* line 132
Enumerate ==
    /\ pc = "enumerate"
    /\ moisture_index_files' = SortedPaths(rglob)
    /\ pc' = "dates"
    /\ UNCHANGED <<disk, run, err, moisture_index_dates, date_var, arrays,
                   moisture_index, parallel, datasets, moisture_index_lazy,
                   handles, nc, zarr, read_nc, read_zarr, written, prev>>

\* line 150: the list comprehension raises at the first name that does
\* not parse, and moisture_index_dates is then not assigned.
ParseDates ==
    /\ pc = "dates"
    /\ LET parsed == [i \in DOMAIN moisture_index_files |->
                        to_datetime(FirstSegment(moisture_index_files[i].stem))]
       IN  IF \E i \in DOMAIN parsed : parsed[i] = ParseError
           THEN Abort("DateParseError") /\ UNCHANGED moisture_index_dates
           ELSE /\ moisture_index_dates' = parsed
                /\ pc' = "date_var"
                /\ UNCHANGED err
    /\ UNCHANGED <<disk, run, moisture_index_files, date_var, arrays,
                   moisture_index, parallel, datasets, moisture_index_lazy,
                   handles, nc, zarr, read_nc, read_zarr, written, prev>>

\* The ascending rearrangement of a list of dates.
RECURSIVE Ascending(_, _)
Ascending(dates, I) ==
    IF I = {} THEN <<>>
    ELSE LET m == CHOOSE i \in I : \A j \in I : dates[i].v <= dates[j].v
         IN  <<dates[m]>> \o Ascending(dates, I \ {m})

\* The date axis built from the dates in chronological order instead of
\* the order of the files.
DateVarAscending ==
    /\ pc = "date_var"
    /\ date_var' = Variable("date", Ascending(moisture_index_dates,
                                               DOMAIN moisture_index_dates))
    /\ pc' = "open"
    /\ UNCHANGED <<disk, run, err, moisture_index_files, moisture_index_dates,
                   arrays, moisture_index, parallel, datasets,
                   moisture_index_lazy, handles, nc, zarr, read_nc, read_zarr,
                   written, prev>>

\* line 177
DateVar ==
    /\ pc = "date_var"
    /\ date_var' = Variable("date", moisture_index_dates)
    /\ pc' = "open"
    /\ UNCHANGED <<disk, run, err, moisture_index_files, moisture_index_dates,
                   arrays, moisture_index, parallel, datasets,
                   moisture_index_lazy, handles, nc, zarr, read_nc, read_zarr,
                   written, prev>>

EagerHandles == {h \in handles : h.owner = "arrays"}

\* line 197: the comprehension opens the next file.  A file that does not
\* decode raises; unwinding drops the list built so far, and with it the
\* last reference to every array in it, which closes its file.
OpenNext ==
    /\ pc = "open"
    /\ Len(arrays) < Len(moisture_index_files)
    /\ LET p == moisture_index_files[Len(arrays) + 1]
       IN  IF disk[p].ok
           THEN /\ arrays' = Append(arrays, open_dataarray(p, disk[p]))
                /\ handles' = handles \cup {[path |-> p, owner |-> "arrays"]}
                /\ UNCHANGED <<pc, err>>
           ELSE /\ Abort("OpenError")
                /\ arrays' = <<>>
                /\ handles' = handles \ EagerHandles
    /\ UNCHANGED <<disk, run, moisture_index_files, moisture_index_dates,
                   date_var, moisture_index, parallel, datasets,
                   moisture_index_lazy, nc, zarr, read_nc, read_zarr,
                   written, prev>>

\* A concatenation that accepts an empty list and yields an empty stack.
ConcatAllowEmpty ==
    /\ pc = "open"
    /\ Len(arrays) = Len(moisture_index_files)
    /\ moisture_index' =
          IF arrays = <<>>
          THEN [NoArray EXCEPT !.dims = <<date_var.name, "band", "y", "x">>]
          ELSE concat(arrays, date_var)
    /\ pc' = "lazy"
    /\ arrays' = <<>>
    /\ handles' = handles \ EagerHandles
    /\ UNCHANGED <<disk, run, err, moisture_index_files, moisture_index_dates,
                   date_var, parallel, datasets, moisture_index_lazy, nc,
                   zarr, read_nc, read_zarr, written, prev>>

\* lines 196-199: xr.concat on the finished list.  An empty list raises
\* ValueError("must supply at least one object to concatenate").  The list
\* is a temporary: when concat returns, the arrays in it are dropped and
\* their files closed.
Concat ==
    /\ pc = "open"
    /\ Len(arrays) = Len(moisture_index_files)
    /\ IF arrays = <<>>
       THEN Abort("EmptyInput") /\ UNCHANGED moisture_index
       ELSE /\ moisture_index' = concat(arrays, date_var)
            /\ pc' = "lazy"
            /\ UNCHANGED err
    /\ arrays' = <<>>
    /\ handles' = handles \ EagerHandles
    /\ UNCHANGED <<disk, run, moisture_index_files, moisture_index_dates,
                   date_var, parallel, datasets, moisture_index_lazy, nc,
                   zarr, read_nc, read_zarr, written, prev>>


(***************************************************************************)
(* Lazy path: xr.open_mfdataset(sorted(...rglob("*.tiff")),                *)
(*            preprocess=add_date_dimension, engine="rasterio",            *)
(*            decode_cf=False)                                             *)
(***************************************************************************)
Pending(p) ==
    [st |-> "pending", path |-> p, source |-> NoPath, xs |-> {},
     nodata |-> {}, date |-> <<>>, var |-> "band_data", calls |-> 0]

\* open_dataset(p): a dataset whose pixels stay on disk; encoding["source"]
\* names the file it was opened from.
open_dataset_lazy(ds, r) ==
    [ds EXCEPT !.st = "opened", !.source = ds.path, !.xs = r.xs,
               !.nodata = r.nodata]

\* The hook reading the name of the first enumerated file instead of the
\* name of the file its argument was loaded from.
add_date_dimension_first_file(ds) ==
    [ds EXCEPT !.date = <<to_datetime(FirstSegment(moisture_index_files[1].stem))>>,
               !.var = "moisture_index"]

\* lines 241-245
add_date_dimension(ds) ==
    [ds EXCEPT !.date = <<to_datetime(FirstSegment(ds.source.stem))>>,
               !.var = "moisture_index"]

\* The indices of dss in ascending order of their date label.
RECURSIVE ByDate(_, _)
ByDate(dss, I) ==
    IF I = {} THEN <<>>
    ELSE LET m == CHOOSE i \in I : \A j \in I : dss[i].date[1].v <= dss[j].date[1].v
         IN  <<m>> \o ByDate(dss, I \ {m})

\* A combination that sorts the labels but leaves the chunks in the order
\* of the list.
CombinedLabelsOnly(dss, order) ==
    [date   |-> [k \in DOMAIN order |-> dss[order[k]].date[1]],
     xs     |-> UNION {dss[i].xs : i \in DOMAIN dss},
     src    |-> [k \in DOMAIN order |-> dss[k].source],
     nodata |-> dss[order[1]].nodata,
     dims   |-> <<"date", "band", "y", "x">>]

Combined(dss, order) ==
    [date   |-> [k \in DOMAIN order |-> dss[order[k]].date[1]],
     xs     |-> UNION {dss[i].xs : i \in DOMAIN dss},
     src    |-> [k \in DOMAIN order |-> dss[order[k]].source],
     nodata |-> dss[order[1]].nodata,
     dims   |-> <<"date", "band", "y", "x">>]

\* Combining in the order of the list of files (combine="nested").
combine_in_list_order(dss) == Combined(dss, [i \in DOMAIN dss |-> i])

\* combine="by_coords", the default of open_mfdataset: the datasets are
\* placed along 'date' by their own date label, ascending, whatever their
\* order in the list; differing extents are outer-joined.  The candidate
\* files carry pairwise different dates.
combine_by_coords(dss) == Combined(dss, ByDate(dss, DOMAIN dss))

\* A single NaT label is not monotonic: with more than one dataset
\* combine_by_coords raises ValueError.
Combinable(dss) ==
    Len(dss) = 1 \/ \A i \in DOMAIN dss : dss[i].date[1] # NaT

\* The pixels of the file behind one chunk, on the coordinates xs.
Chunk(p, xs) ==
    [x \in xs |-> IF x \in disk[p].xs THEN disk[p].pix[x] ELSE NaN]

\* .compute(): the lazy array with every chunk read.
Compute(lazy) ==
    [date |-> lazy.date, xs |-> lazy.xs,
     data |-> [k \in DOMAIN lazy.src |-> Chunk(lazy.src[k], lazy.xs)],
     nodata |-> lazy.nodata, dims |-> lazy.dims]

LazyHandles == {h \in handles : h.owner = "moisture_index_lazy"}

\* line 255: the file list is enumerated again; an empty list raises
\* OSError("no files to open").  parallel is open_mfdataset's option the
\* notebook names at line 256 and uses at line 446.
LazyStart ==
    /\ pc = "lazy"
    /\ LET paths == SortedPaths(rglob)
       IN  IF paths = <<>>
           THEN Abort("EmptyInput") /\ UNCHANGED <<datasets, parallel>>
           ELSE /\ datasets' = [i \in DOMAIN paths |-> Pending(paths[i])]
                /\ parallel' \in BOOLEAN
                /\ pc' = "lazy_load"
                /\ UNCHANGED err
    /\ UNCHANGED <<disk, run, moisture_index_files, moisture_index_dates,
                   date_var, arrays, moisture_index, moisture_index_lazy,
                   handles, nc, zarr, read_nc, read_zarr, written, prev>>

\* datasets = [open_(p, **open_kwargs) for p in paths]: in list order, or,
\* with parallel=True, as delayed tasks in any order.  When a file does
\* not decode the exception leaves open_mfdataset, whose frame still
\* refers to the datasets opened so far.
LazyOpen(i) ==
    /\ pc = "lazy_load"
    /\ datasets[i].st = "pending"
    /\ parallel \/ \A j \in 1..(i - 1) : datasets[j].st # "pending"
    /\ LET p == datasets[i].path
       IN  IF disk[p].ok
           THEN /\ datasets' = [datasets EXCEPT ![i] = open_dataset_lazy(@, disk[p])]
                /\ handles' = handles \cup {[path |-> p, owner |-> "moisture_index_lazy"]}
                /\ UNCHANGED <<pc, err>>
           ELSE /\ Abort("OpenError")
                /\ UNCHANGED <<datasets, handles>>
    /\ UNCHANGED <<disk, run, moisture_index_files, moisture_index_dates,
                   date_var, arrays, moisture_index, parallel,
                   moisture_index_lazy, nc, zarr, read_nc, read_zarr,
                   written, prev>>

\* datasets = [preprocess(ds) for ds in datasets]: after every file is
\* open and in list order, or, with parallel=True, each as soon as its own
\* file is open.  calls counts the invocations of the hook.
LazyPreprocess(i) ==
    /\ pc = "lazy_load"
    /\ datasets[i].st = "opened"
    /\ \/ parallel
       \/ /\ \A j \in DOMAIN datasets : datasets[j].st # "pending"
          /\ \A j \in 1..(i - 1) : datasets[j].st = "preprocessed"
    /\ LET out == add_date_dimension(datasets[i])
       IN  IF out.date[1] = ParseError
           THEN /\ Abort("DateParseError")
                /\ datasets' = [datasets EXCEPT ![i].calls = @ + 1]
           ELSE /\ datasets' = [datasets EXCEPT
                                  ![i] = [out EXCEPT !.st = "preprocessed",
                                                     !.calls = @ + 1]]
                /\ UNCHANGED <<pc, err>>
    /\ UNCHANGED <<disk, run, moisture_index_files, moisture_index_dates,
                   date_var, arrays, moisture_index, parallel,
                   moisture_index_lazy, handles, nc, zarr, read_nc,
                   read_zarr, written, prev>>

\* The combine step of open_mfdataset.  On ValueError it closes every
\* dataset before raising again; on success the returned dataset keeps
\* the files open, since its pixels are still on disk.
LazyCombine ==
    /\ pc = "lazy_load"
    /\ \A i \in DOMAIN datasets : datasets[i].st = "preprocessed"
    /\ IF Combinable(datasets)
       THEN /\ moisture_index_lazy' = combine_by_coords(datasets)
            /\ pc' = "to_netcdf"
            /\ UNCHANGED <<err, handles>>
       ELSE /\ Abort("ValueError")
            /\ handles' = handles \ LazyHandles
            /\ UNCHANGED moisture_index_lazy
    /\ UNCHANGED <<disk, run, moisture_index_files, moisture_index_dates,
                   date_var, arrays, moisture_index, parallel, datasets,
                   nc, zarr, read_nc, read_zarr, written, prev>>


(***************************************************************************)
(* Serializer                                                              *)
(***************************************************************************)
\* CF time encoding: offsets from the first date that is not NaT, NaT as
\* the fill value.
EncodeTimes(dates) ==
    LET real == {i \in DOMAIN dates : dates[i] # NaT}
        ref  == IF real = {} THEN 0 ELSE dates[MinOf(real)].v
    IN  [units |-> ref,
         time  |-> [i \in DOMAIN dates |->
                      IF dates[i] = NaT THEN [fill |-> TRUE, off |-> 0]
                      ELSE [fill |-> FALSE, off |-> dates[i].v - ref]]]

\* decode_times=True
DecodeTimes(units, time) ==
    [i \in DOMAIN time |->
        IF time[i].fill THEN NaT ELSE Date(units + time[i].off)]

\* What a write stores: the encoded dates, the other coordinates, the raw
\* pixels and the _FillValue attribute.
Encode(arr) ==
    LET t == EncodeTimes(arr.date)
    IN  [units |-> t.units, time |-> t.time, xs |-> arr.xs,
         data |-> arr.data, nodata |-> arr.nodata, dims |-> arr.dims]

\* mask_and_scale=True, the default of xr.open_dataset: a pixel equal to
\* the stored _FillValue is read as NaN.
Mask(row, nodata) == [x \in DOMAIN row |-> IF row[x] \in nodata THEN NaN ELSE row[x]]

\* xr.open_dataset(destination) with its defaults (lines 321 and 349):
\* times decoded, pixels masked, _FillValue moved from the attributes to
\* the encoding.
open_dataset(c) ==
    [date |-> DecodeTimes(c.units, c.time), xs |-> c.xs,
     data |-> [i \in DOMAIN c.data |-> Mask(c.data[i], c.nodata)],
     nodata |-> {}, dims |-> c.dims]

\* The content of a Zarr store all of whose chunks are written.
ZarrContent(z) == [z.meta EXCEPT !.data = z.chunks]

ZarrWhole(z) ==
    /\ z.st = "present"
    /\ z.consolidated
    /\ DOMAIN z.chunks = DOMAIN z.src

\* line 303, first half: to_netcdf opens the destination in mode "w",
\* which truncates a file that is already there.
NcOpen ==
    /\ pc = "to_netcdf"
    /\ nc' = [st |-> "partial", content |-> NoEncoded]
    /\ written' = written \cup {"nc"}
    /\ pc' = "nc_write"
    /\ UNCHANGED <<disk, run, err, kernel, handles, zarr, prev>>

\* line 303, second half: the variables are written and the file closed.
NcWrite ==
    /\ pc = "nc_write"
    /\ nc' = [st |-> "complete", content |-> Encode(moisture_index)]
    /\ pc' = "read_nc"
    /\ UNCHANGED <<disk, run, err, kernel, handles, zarr, written, prev>>

\* line 321
ReadNc ==
    /\ pc = "read_nc"
    /\ read_nc' = open_dataset(nc.content)
    /\ pc' = "to_zarr"
    /\ UNCHANGED <<disk, run, err, moisture_index_files, moisture_index_dates,
                   date_var, arrays, moisture_index, parallel, datasets,
                   moisture_index_lazy, handles, nc, zarr, read_zarr,
                   written, prev>>

\* line 339, first step: to_zarr with its default mode "w-" creates the
\* store and raises if the destination exists; then it writes the
\* metadata and the coordinates.
ZarrCreate ==
    /\ pc = "to_zarr"
    /\ IF zarr.st # "absent"
       THEN Abort("WriteConflict") /\ UNCHANGED <<zarr, written>>
       ELSE /\ zarr' = [st |-> "present",
                        meta |-> Encode([date |-> moisture_index_lazy.date,
                                         xs |-> moisture_index_lazy.xs,
                                         data |-> <<>>,
                                         nodata |-> moisture_index_lazy.nodata,
                                         dims |-> moisture_index_lazy.dims]),
                        src |-> moisture_index_lazy.src,
                        chunks |-> <<>>,
                        consolidated |-> FALSE]
            /\ written' = written \cup {"zarr"}
            /\ pc' = "zarr_chunks"
            /\ UNCHANGED err
    /\ UNCHANGED <<disk, run, kernel, handles, nc, prev>>

\* line 339, the chunks: each is read from its file and written to its
\* own place in the store, in any order.
ZarrWriteChunk(k) ==
    /\ pc = "zarr_chunks"
    /\ k \in DOMAIN moisture_index_lazy.src
    /\ k \notin DOMAIN zarr.chunks
    /\ zarr' = [zarr EXCEPT !.chunks =
                  [j \in DOMAIN zarr.chunks \cup {k} |->
                     IF j = k
                     THEN Chunk(moisture_index_lazy.src[k], moisture_index_lazy.xs)
                     ELSE zarr.chunks[j]]]
    /\ UNCHANGED <<disk, run, pc, err, kernel, handles, nc, written, prev>>

\* line 339, last step: the metadata is consolidated.
ZarrFinish ==
    /\ pc = "zarr_chunks"
    /\ DOMAIN zarr.chunks = DOMAIN moisture_index_lazy.src
    /\ zarr' = [zarr EXCEPT !.consolidated = TRUE]
    /\ pc' = "read_zarr"
    /\ UNCHANGED <<disk, run, err, kernel, handles, nc, written, prev>>

\* line 349
ReadZarr ==
    /\ pc = "read_zarr"
    /\ read_zarr' = open_dataset(ZarrContent(zarr))
    /\ pc' = "cleanup"
    /\ UNCHANGED <<disk, run, err, moisture_index_files, moisture_index_dates,
                   date_var, arrays, moisture_index, parallel, datasets,
                   moisture_index_lazy, handles, nc, zarr, read_nc,
                   written, prev>>

\* A clean-up that forgets the Zarr directory.
CleanupNcOnly ==
    /\ pc = "cleanup"
    /\ nc' = AbsentNc
    /\ pc' = "done"
    /\ UNCHANGED <<disk, run, err, kernel, handles, zarr, written, prev>>

\* lines 367-372
Cleanup ==
    /\ pc = "cleanup"
    /\ zarr' = AbsentZarr
    /\ nc' = AbsentNc
    /\ pc' = "done"
    /\ UNCHANGED <<disk, run, err, kernel, handles, written, prev>>

(***************************************************************************)
(* Runs                                                                    *)
(***************************************************************************)
\* The kernel is restarted and the notebook run again from the top: the
\* notebook variables and the open handles are gone, the files stay.
Rerun ==
    /\ pc \in {"done", "aborted"}
    /\ run < MaxRuns
    /\ run' = run + 1
    /\ prev' = IF pc = "done"
               THEN [complete |-> TRUE, eager |-> moisture_index,
                     lazy |-> moisture_index_lazy,
                     read_nc |-> read_nc, read_zarr |-> read_zarr]
               ELSE NoPrev
    /\ Restart
    /\ UNCHANGED <<disk, nc, zarr>>

\* The run is interrupted (the kernel dies) between two steps, and the
\* notebook is run again.
Crash ==
    /\ pc \notin {"done", "aborted"}
    /\ run < MaxRuns
    /\ run' = run + 1
    /\ prev' = NoPrev
    /\ Restart
    /\ UNCHANGED <<disk, nc, zarr>>

Next ==
    \/ Enumerate
    \/ ParseDates
    \/ DateVar
    \/ OpenNext
    \/ Concat
    \/ LazyStart
    \/ \E i \in DOMAIN datasets : LazyOpen(i)
    \/ \E i \in DOMAIN datasets : LazyPreprocess(i)
    \/ LazyCombine
    \/ NcOpen
    \/ NcWrite
    \/ ReadNc
    \/ ZarrCreate
    \/ \E k \in 1..Len(moisture_index_lazy.src) : ZarrWriteChunk(k)
    \/ ZarrFinish
    \/ ReadZarr
    \/ Cleanup
    \/ Rerun
    \/ Crash

Spec == Init /\ [][Next]_vars


(***************************************************************************)
(* Properties                                                              *)
(***************************************************************************)
NFiles == Cardinality(DOMAIN disk)
SameShape == \A p, q \in DOMAIN disk : disk[p].xs = disk[q].xs
AllWellNamed == DOMAIN disk \subseteq WellNamed

\* The label a file's name asks for: its acquisition date, or NaT when the
\* name starts with the comma.
ExpectedLabel(p) == IF p \in WellNamed THEN Date(AcquiredOn(p)) ELSE NaT

\* The pixels of file p laid out on the coordinates xs.
PixelsOn(p, xs) == [x \in xs |-> IF x \in disk[p].xs THEN disk[p].pix[x] ELSE NaN]

\* Same values, same axis labels, same dimension names.
SameArray(a, b) ==
    /\ a.date = b.date
    /\ a.xs = b.xs
    /\ a.data = b.data
    /\ a.dims = b.dims

\* C1: eager stacking.  For N >= 1 same-shaped files whose names start
\* with a date, the stacked array has a date axis of length N; the i-th
\* label is the date of the i-th enumerated file and the i-th slice
\* holds that file's pixels; no file is enumerated twice.
C1_EagerStacking ==
    (moisture_index # NoArray /\ AllWellNamed /\ SameShape) =>
        /\ NFiles >= 1
        /\ Len(moisture_index_files) = NFiles
        /\ Len(moisture_index.date) = NFiles
        /\ Len(moisture_index.data) = NFiles
        /\ \A i, j \in 1..NFiles :
              i # j => moisture_index_files[i] # moisture_index_files[j]
        /\ \A i \in 1..NFiles :
              /\ moisture_index_files[i] \in DOMAIN disk
              /\ moisture_index.date[i] = Date(AcquiredOn(moisture_index_files[i]))
              /\ moisture_index.data[i] = disk[moisture_index_files[i]].pix

\* Three files are stacked, and their dates are not in ascending order.
C1_Witness ==
    /\ moisture_index # NoArray
    /\ AllWellNamed
    /\ SameShape
    /\ NFiles = 3
    /\ moisture_index.date[1].v > moisture_index.date[2].v

\* C2: round trip.  What is read back from moisture_index_stacked.nc has
\* the values, labels and dimension names of moisture_index, and what is
\* read back from moisture_index_stacked.zarr those of moisture_index_lazy.
C2_RoundTrip ==
    /\ read_nc # NoArray => SameArray(read_nc, moisture_index)
    /\ read_zarr # NoArray => SameArray(read_zarr, Compute(moisture_index_lazy))

\* C3: a file whose name does not start with a valid date stops the run
\* with a date-parse error at the dates cell: no array is stacked and no
\* output is written by the run.
C3_BadNameAborts ==
    (\E p \in DOMAIN disk : p \notin WellNamed) =>
        /\ pc \in {"enumerate", "dates", "aborted"}
        /\ err \in {"none", "DateParseError"}
        /\ moisture_index = NoArray
        /\ moisture_index_lazy = NoLazy
        /\ written = {}

C5_OverwriteKeepsValidOutput ==
    [][ /\ (pc \in {"to_netcdf", "nc_write"} /\ nc.st = "complete")
            => nc'.st = "complete"
        /\ (pc \in {"to_zarr", "zarr_chunks"} /\ ZarrWhole(zarr))
            => ZarrWhole(zarr') ]_vars

\* C6: with no input file the run ends at the concatenation with the
\* empty-input error; nothing is stacked and no output is written.
C6_EmptyInput ==
    DOMAIN disk = {} =>
        /\ pc \in {"enumerate", "dates", "date_var", "open", "aborted"}
        /\ pc = "aborted" => err = "EmptyInput"
        /\ pc # "aborted" => err = "none"
        /\ moisture_index = NoArray
        /\ moisture_index_lazy = NoLazy
        /\ written = {}
        /\ nc.st = "absent"
        /\ zarr.st = "absent"

C6_Witness ==
    /\ DOMAIN disk = {}
    /\ pc = "aborted"
    /\ err = "EmptyInput"
    /\ moisture_index_files = <<>>

\* C7: when two input files differ in extent, concatenation aborts: no
\* stacked array is returned and no later step runs.
C7_ShapeMismatchAborts ==
    ~SameShape =>
        /\ moisture_index = NoArray
        /\ moisture_index_lazy = NoLazy
        /\ written = {}
        /\ pc \in {"enumerate", "dates", "date_var", "open", "aborted"}

\* C8: outside the load steps, whether the load completed or aborted, no
\* handle on an input file is held.
C8_HandlesScoped ==
    pc \notin {"open", "lazy_load"} => handles = {}

\* C9: idempotence.  A run that follows a complete run (clean-up
\* included) on the same files raises nothing and ends with the same
\* stacked arrays and the same arrays read back.
C9_Idempotent ==
    prev.complete =>
        /\ err = "none"
        /\ pc # "aborted"
        /\ pc = "done" =>
              /\ moisture_index = prev.eager
              /\ moisture_index_lazy = prev.lazy
              /\ read_nc = prev.read_nc
              /\ read_zarr = prev.read_zarr

C9_Witness ==
    /\ prev.complete
    /\ pc = "done"
    /\ run = 2
    /\ Len(moisture_index.date) >= 2
    /\ Len(read_zarr.data) >= 2

\* C10: the hook runs at most once per file, exactly once per file before
\* the combine step, on the dataset of the file it was opened from; what
\* it returns has a date axis of length 1 labelled with that file's date.
C10_HookPerFile ==
    /\ \A i \in DOMAIN datasets :
          /\ datasets[i].calls <= 1
          /\ datasets[i].st = "pending" => datasets[i].calls = 0
          /\ datasets[i].st = "preprocessed" =>
                /\ datasets[i].calls = 1
                /\ datasets[i].source = datasets[i].path
                /\ datasets[i].source \in DOMAIN disk
                /\ Len(datasets[i].date) = 1
                /\ datasets[i].date[1] = ExpectedLabel(datasets[i].source)
    /\ moisture_index_lazy # NoLazy =>
          /\ Len(datasets) = NFiles
          /\ \A i \in DOMAIN datasets : datasets[i].calls = 1

\* Two files are combined after the hook ran on each.
C10_Witness ==
    /\ moisture_index_lazy # NoLazy
    /\ Len(datasets) >= 2
    /\ \A i \in DOMAIN datasets : datasets[i].calls = 1
    /\ datasets[1].date # datasets[2].date


\* Both stacks exist, over files named by date and of one shape.
BothStacked ==
    /\ moisture_index # NoArray
    /\ moisture_index_lazy # NoLazy
    /\ AllWellNamed
    /\ SameShape

\* The enumerated files are in chronological order.
PathOrderIsDateOrder ==
    \A i, j \in DOMAIN moisture_index_files :
        i < j => AcquiredOn(moisture_index_files[i]) < AcquiredOn(moisture_index_files[j])

=============================================================================
